---------------------------- MODULE Spec2Model ----------------------------
(***************************************************************************)
(* Model of the DB_SIM storage engine: Record, Schema, Table (insert,      *)
(* update, delete, drop column), Database (catalog, drop table, flush and  *)
(* load of the framed text format under the XOR cipher).                   *)
(*                                                                         *)
(* A std::string is a sequence of byte values 0..255, so that trimming,    *)
(* splitting, the frame format and the cipher are computed byte by byte.   *)
(* A Record is a function from column names to values.  A Table is a       *)
(* record [cols, cons, recs]; Column types are never read by the engine    *)
(* operations modelled here, so a column is its name.                      *)
(***************************************************************************)
EXTENDS Integers, Sequences, FiniteSets, TLC

(***************************************************************************)
(* Bounds of the model.                                                    *)
(***************************************************************************)
MaxRecs == 2      \* records all the tables together may hold
\* The records the tables together may hold where the order of the records
\* that stay behind matters.
MaxKept == 3

\* The values a constraint's validator is given at once.
MaxValues == 3

MaxData == 3      \* length of the byte sequences given to the cipher

(***************************************************************************)
(* Byte strings used as inputs.                                            *)
(***************************************************************************)
ColA == <<97>>                   \* "a"
ColB == <<98>>                   \* "b"
ColC == <<99>>                   \* "c"
TabT == <<116>>                  \* "t"
TabU == <<117>>                  \* "u"
ValX == <<120>>                  \* "x"
ValY == <<121>>                  \* "y"
ValQX == <<39, 120, 39>>         \* "'x'"
Empty == <<>>                    \* ""

Min(a, b) == IF a < b THEN a ELSE b

(***************************************************************************)
(* Utility.cpp                                                             *)
(***************************************************************************)
Whitespace == {32, 9, 10, 13}    \* " \t\n\r"

RECURSIVE trimLeft(_)
trimLeft(s) ==
    IF s = <<>> THEN s
    ELSE IF Head(s) \in Whitespace THEN trimLeft(Tail(s)) ELSE s

RECURSIVE trimRight(_)
trimRight(s) ==
    IF s = <<>> THEN s
    ELSE IF s[Len(s)] \in Whitespace THEN trimRight(SubSeq(s, 1, Len(s) - 1)) ELSE s

trim(s) == trimRight(trimLeft(s))

\* std::string::find(ch): 1-based position of the first ch, 0 for npos.
RECURSIVE findFrom(_, _, _)
findFrom(s, ch, i) ==
    IF i > Len(s) THEN 0
    ELSE IF s[i] = ch THEN i ELSE findFrom(s, ch, i + 1)

find(s, ch) == findFrom(s, ch, 1)

\* std::string::find(str): 1-based position of the first occurrence, 0 for npos.
RECURSIVE findStrFrom(_, _, _)
findStrFrom(s, pat, i) ==
    IF i + Len(pat) - 1 > Len(s) THEN 0
    ELSE IF SubSeq(s, i, i + Len(pat) - 1) = pat THEN i
    ELSE findStrFrom(s, pat, i + 1)

findStr(s, pat) == findStrFrom(s, pat, 1)

\* s.rfind(prefix, 0) == 0
startsWith(s, prefix) ==
    /\ Len(s) >= Len(prefix)
    /\ SubSeq(s, 1, Len(prefix)) = prefix

\* s.substr(pos) with a 0-based pos <= size.
substrFrom(s, pos) == SubSeq(s, pos + 1, Len(s))

\* s.substr(pos, n) with a 0-based pos <= size; n is a size_t, so a negative
\* n has wrapped around and takes the rest of the string.
substr(s, pos, n) ==
    IF n < 0 THEN SubSeq(s, pos + 1, Len(s))
    ELSE SubSeq(s, pos + 1, Min(Len(s), pos + n))

\* The tokens produced by repeated std::getline(stream, token, delimiter):
\* no token after a trailing delimiter, none for the empty string.
RECURSIVE getlineTokens(_, _)
getlineTokens(s, d) ==
    IF s = <<>> THEN <<>>
    ELSE LET p == find(s, d)
         IN IF p = 0 THEN <<s>>
            ELSE <<SubSeq(s, 1, p - 1)>> \o getlineTokens(SubSeq(s, p + 1, Len(s)), d)

split(s, delimiter) ==
    LET toks == getlineTokens(s, delimiter)
    IN [i \in 1..Len(toks) |-> trim(toks[i])]

removeApostrophe(s) ==
    IF s /= <<>> /\ s[1] = 39 /\ s[Len(s)] = 39
    THEN substr(s, 1, Len(s) - 2)
    ELSE s

(***************************************************************************)
(* Record.cpp: a Record is a function from column names to values.         *)
(***************************************************************************)
EmptyRecord == [c \in {} |-> <<>>]

hasColumn(record, columnName) == columnName \in DOMAIN record

\* Record::getValue is only applied where the column is present or the
\* std::runtime_error it throws is caught by the caller.
getValue(record, columnName) == record[columnName]

setValue(record, columnName, value) ==
    [c \in (DOMAIN record) \cup {columnName} |->
        IF c = columnName THEN value ELSE record[c]]

\* Erasing a key from the record's map (unordered_map::erase).
eraseKey(record, columnName) ==
    [c \in (DOMAIN record) \ {columnName} |-> record[c]]

\* Applying a list of (column, value) pairs with setValue, in order.
RECURSIVE setAll(_, _, _)
setAll(record, pairs, i) ==
    IF i > Len(pairs) THEN record
    ELSE setAll(setValue(record, pairs[i][1], pairs[i][2]), pairs, i + 1)

(***************************************************************************)
(* Constraint.h / Schema.cpp: a constraint is a record with a kind.        *)
(***************************************************************************)
PK(cols) == [kind |-> "PK", cols |-> cols, ref |-> <<>>, refcols |-> <<>>]
UQ(cols) == [kind |-> "UQ", cols |-> cols, ref |-> <<>>, refcols |-> <<>>]
FK(cols, ref, refcols) == [kind |-> "FK", cols |-> cols, ref |-> ref, refcols |-> refcols]

schemaHasColumn(cols, columnName) == \E i \in 1..Len(cols) : cols[i] = columnName

(***************************************************************************)
(* Constraint.cpp: the validators of a list of values.                     *)
(***************************************************************************)
\* std::string's operator<: the order of the bytes, a prefix first.
RECURSIVE lessString(_, _)
lessString(a, b) ==
    IF b = <<>> THEN FALSE
    ELSE IF a = <<>> THEN TRUE
    ELSE IF a[1] < b[1] THEN TRUE
    ELSE IF a[1] > b[1] THEN FALSE
    ELSE lessString(Tail(a), Tail(b))

\* std::sort of a vector of strings: v put in its place among sorted ones.
RECURSIVE insertSorted(_, _)
insertSorted(sorted, v) ==
    IF sorted = <<>> THEN <<v>>
    ELSE IF lessString(v, Head(sorted)) THEN <<v>> \o sorted
    ELSE <<Head(sorted)>> \o insertSorted(Tail(sorted), v)

RECURSIVE sortStrings(_, _)
sortStrings(values, i) ==
    IF i = 0 THEN <<>>
    ELSE insertSorted(sortStrings(values, i - 1), values[i])

\* PrimaryKeyConstraint::validate
validatePrimaryKey(values) == \A i \in 1..Len(values) : values[i] /= <<>>

\* ForeignKeyConstraint::validate
validateForeignKey(columnNames, values) == Len(values) = Len(columnNames)

\* UniqueConstraint::validate with the neighbours compared in the vector as
\* given, not in a sorted copy.
validateUniqueUnsorted(values) ==
    \A i \in 2..Len(values) : values[i] /= values[i - 1]

\* UniqueConstraint::validate
validateUnique(values) ==
    LET copy == sortStrings(values, Len(values))
    IN \A i \in 2..Len(copy) : copy[i] /= copy[i - 1]

\* Constraint::validate, dispatched on the class of the constraint.
validate(constraint, values) ==
    IF constraint.kind = "PK" THEN validatePrimaryKey(values)
    ELSE IF constraint.kind = "FK" THEN validateForeignKey(constraint.cols, values)
    ELSE validateUnique(values)

(***************************************************************************)
(* Table.cpp: a Table is [cols, cons, recs].                               *)
(***************************************************************************)
NewTable(schema) == [cols |-> schema.cols, cons |-> schema.cons, recs |-> <<>>]

\* The values of keyColumns in a record that has them all, in declared order.
keyValues(record, keyColumns) ==
    [i \in 1..Len(keyColumns) |-> getValue(record, keyColumns[i])]

\* The scan with its loop one short: the record stored last is never compared.
hasDuplicateSkipsLast(records, keyColumns, newValues) ==
    \E k \in 1..(Len(records) - 1) :
        /\ \A i \in 1..Len(keyColumns) : hasColumn(records[k], keyColumns[i])
        /\ keyValues(records[k], keyColumns) = newValues

\* The scan of the existing records: a record missing a key column is
\* skipped, one holding the same values is a duplicate.
hasDuplicate(records, keyColumns, newValues) ==
    \E k \in 1..Len(records) :
        /\ \A i \in 1..Len(keyColumns) : hasColumn(records[k], keyColumns[i])
        /\ keyValues(records[k], keyColumns) = newValues

\* The primary-key loop without its test for the empty value.
gatherPrimaryKeyAllowsEmpty(record, keyColumns, i) ==
    IF \E j \in i..Len(keyColumns) : ~hasColumn(record, keyColumns[j])
    THEN "missing" ELSE "ok"

\* The loop gathering the new record's primary-key values: the outcome at the
\* first column that is missing or empty, "ok" when every column passes.
RECURSIVE gatherPrimaryKey(_, _, _)
gatherPrimaryKey(record, keyColumns, i) ==
    IF i > Len(keyColumns) THEN "ok"
    ELSE IF ~hasColumn(record, keyColumns[i]) THEN "missing"
    ELSE IF getValue(record, keyColumns[i]) = <<>> THEN "empty"
    ELSE gatherPrimaryKey(record, keyColumns, i + 1)

\* The loop gathering the new record's unique-constraint values.
gatherUnique(record, keyColumns) ==
    IF \E i \in 1..Len(keyColumns) : ~hasColumn(record, keyColumns[i])
    THEN "missing" ELSE "ok"

\* The constraint loop's iteration with every constraint that is not a
\* primary key taken through the unique branch, a foreign key included.
checkConstraintForeignToo(records, record, constraint) ==
    IF constraint.kind = "PK" THEN
        LET g == gatherPrimaryKey(record, constraint.cols, 1)
        IN IF g /= "ok" THEN g
           ELSE IF hasDuplicate(records, constraint.cols, keyValues(record, constraint.cols))
                THEN "duplicate" ELSE "ok"
    ELSE
        LET g == gatherUnique(record, constraint.cols)
        IN IF g /= "ok" THEN g
           ELSE IF hasDuplicate(records, constraint.cols, keyValues(record, constraint.cols))
                THEN "duplicate" ELSE "ok"

\* One iteration of the constraint loop of Table::insertRecord.
checkConstraint(records, record, constraint) ==
    IF constraint.kind = "PK" THEN
        LET g == gatherPrimaryKey(record, constraint.cols, 1)
        IN IF g /= "ok" THEN g
           ELSE IF hasDuplicate(records, constraint.cols, keyValues(record, constraint.cols))
                THEN "duplicate" ELSE "ok"
    ELSE IF constraint.kind = "UQ" THEN
        LET g == gatherUnique(record, constraint.cols)
        IN IF g /= "ok" THEN g
           ELSE IF hasDuplicate(records, constraint.cols, keyValues(record, constraint.cols))
                THEN "duplicate" ELSE "ok"
    ELSE "ok"

\* The constraint loop: the first failure returns.
RECURSIVE checkConstraints(_, _, _, _)
checkConstraints(records, record, constraints, i) ==
    IF i > Len(constraints) THEN "ok"
    ELSE LET r == checkConstraint(records, record, constraints[i])
         IN IF r /= "ok" THEN r
            ELSE checkConstraints(records, record, constraints, i + 1)

\* Table::insertRecord with the push_back ahead of the constraint loop.
insertRecordAppendsFirst(table, record) ==
    LET why == checkConstraints(table.recs, record, table.cons, 1)
    IN [ok |-> why = "ok", why |-> why,
        table |-> [table EXCEPT !.recs = Append(@, record)]]

insertRecord(table, record) ==
    LET why == checkConstraints(table.recs, record, table.cons, 1)
    IN IF why = "ok"
       THEN [ok |-> TRUE, why |-> why, table |-> [table EXCEPT !.recs = Append(@, record)]]
       ELSE [ok |-> FALSE, why |-> why, table |-> table]

\* The patch with the record assigned instead of its values set one by one.
applyRecordReplaces(record, newRecord) == newRecord

\* for (pair : newRecord.getData()) record.setValue(pair.first, pair.second)
applyRecord(record, newRecord) ==
    [c \in (DOMAIN record) \cup (DOMAIN newRecord) |->
        IF c \in DOMAIN newRecord THEN newRecord[c] ELSE record[c]]

LitAll == <<97, 108, 108>>       \* "all"

\* The column of a condition "column = value": the text before the first '='.
conditionColumn(cond) == trim(substr(cond, 0, find(cond, 61) - 1))

\* The value of a condition as Table::updateRecord takes it.
updateConditionValue(cond) == trim(substrFrom(cond, find(cond, 61)))

\* The value of a delete's condition with its single quotes left on.
deleteConditionValueQuoted(cond) == trim(substrFrom(cond, find(cond, 61)))

\* The value of a condition as Table::deleteRecord takes it.
deleteConditionValue(cond) ==
    LET condVal == trim(substrFrom(cond, find(cond, 61)))
    IN IF condVal /= <<>> /\ condVal[1] = 39 /\ condVal[Len(condVal)] = 39
       THEN substr(condVal, 1, Len(condVal) - 2)
       ELSE condVal

\* getValue(condCol) == condVal, a missing column (runtime_error) is no match.
recordMatches(record, condCol, condVal) ==
    /\ hasColumn(record, condCol)
    /\ getValue(record, condCol) = condVal

\* Table::updateRecord with a condition that has no '=' taken for "all".
updateRecordPatchesInvalid(table, newRecord, condition) ==
    LET cond == trim(condition)
    IN IF cond = <<>> \/ cond = LitAll \/ find(cond, 61) = 0
       THEN [ok |-> TRUE, why |-> "all",
             table |-> [table EXCEPT !.recs =
                 [k \in 1..Len(table.recs) |-> applyRecord(table.recs[k], newRecord)]]]
       ELSE LET condCol == conditionColumn(cond)
                condVal == updateConditionValue(cond)
                updated == \E k \in 1..Len(table.recs) :
                               recordMatches(table.recs[k], condCol, condVal)
            IN [ok |-> updated,
                why |-> IF updated THEN "matched" ELSE "nomatch",
                table |-> [table EXCEPT !.recs =
                    [k \in 1..Len(table.recs) |->
                        IF recordMatches(table.recs[k], condCol, condVal)
                        THEN applyRecord(table.recs[k], newRecord)
                        ELSE table.recs[k]]]]

updateRecord(table, newRecord, condition) ==
    LET cond == trim(condition)
    IN IF cond = <<>> \/ cond = LitAll
       THEN [ok |-> TRUE, why |-> "all",
             table |-> [table EXCEPT !.recs =
                 [k \in 1..Len(table.recs) |-> applyRecord(table.recs[k], newRecord)]]]
       ELSE IF find(cond, 61) = 0
       THEN [ok |-> FALSE, why |-> "invalid", table |-> table]
       ELSE LET condCol == conditionColumn(cond)
                condVal == updateConditionValue(cond)
                updated == \E k \in 1..Len(table.recs) :
                               recordMatches(table.recs[k], condCol, condVal)
            IN [ok |-> updated,
                why |-> IF updated THEN "matched" ELSE "nomatch",
                table |-> [table EXCEPT !.recs =
                    [k \in 1..Len(table.recs) |->
                        IF recordMatches(table.recs[k], condCol, condVal)
                        THEN applyRecord(table.recs[k], newRecord)
                        ELSE table.recs[k]]]]

\* Table::deleteRecord without the branch for "all": the word is taken for a
\* condition, and has no '='.
deleteRecordNoAll(table, condition) ==
    LET cond == trim(condition)
    IN IF find(cond, 61) = 0
       THEN [ok |-> FALSE, why |-> "invalid", table |-> table]
       ELSE LET condCol == conditionColumn(cond)
                condVal == deleteConditionValue(cond)
                Keep(record) == ~recordMatches(record, condCol, condVal)
                kept == SelectSeq(table.recs, Keep)
                deleted == Len(table.recs) > Len(kept)
            IN [ok |-> deleted,
                why |-> IF deleted THEN "matched" ELSE "nomatch",
                table |-> [table EXCEPT !.recs = kept]]

deleteRecord(table, condition) ==
    LET cond == trim(condition)
    IN IF cond = LitAll
       THEN [ok |-> TRUE, why |-> "all", table |-> [table EXCEPT !.recs = <<>>]]
       ELSE IF find(cond, 61) = 0
       THEN [ok |-> FALSE, why |-> "invalid", table |-> table]
       ELSE LET condCol == conditionColumn(cond)
                condVal == deleteConditionValue(cond)
                Keep(record) == ~recordMatches(record, condCol, condVal)
                kept == SelectSeq(table.recs, Keep)
                deleted == Len(table.recs) > Len(kept)
            IN [ok |-> deleted,
                why |-> IF deleted THEN "matched" ELSE "nomatch",
                table |-> [table EXCEPT !.recs = kept]]

\* Table::dropColumn without the loop over the records.
dropColumnSchemaOnly(table, columnName) ==
    IF ~schemaHasColumn(table.cols, columnName)
    THEN [ok |-> FALSE, table |-> table]
    ELSE LET Keep(col) == col /= columnName
         IN [ok |-> TRUE, table |-> [table EXCEPT !.cols = SelectSeq(table.cols, Keep)]]

dropColumn(table, columnName) ==
    IF ~schemaHasColumn(table.cols, columnName)
    THEN [ok |-> FALSE, table |-> table]
    ELSE LET Keep(col) == col /= columnName
         IN [ok |-> TRUE,
             table |-> [table EXCEPT
                 !.cols = SelectSeq(table.cols, Keep),
                 !.recs = [k \in 1..Len(table.recs) |-> eraseKey(table.recs[k], columnName)]]]

(***************************************************************************)
(* Database.cpp: the frame format.                                         *)
(***************************************************************************)
MarkTable == <<84, 65, 66, 76, 69, 58>>                                \* "TABLE:"
MarkColumns == <<67, 79, 76, 85, 77, 78, 83, 58>>                      \* "COLUMNS:"
MarkConstraints == <<67, 79, 78, 83, 84, 82, 65, 73, 78, 84, 83, 58>>  \* "CONSTRAINTS:"
MarkRecords == <<82, 69, 67, 79, 82, 68, 83, 58>>                      \* "RECORDS:"
MarkEndTable == <<69, 78, 68, 95, 84, 65, 66, 76, 69>>                 \* "END_TABLE"
MarkPK == <<80, 75, 40>>                                               \* "PK("
MarkUQ == <<85, 81, 40>>                                               \* "UQ("
MarkFK == <<70, 75, 40>>                                               \* "FK("
MarkArrow == <<41, 45, 62>>                                            \* ")->"

\* The items written with sep between them and none after the last.
RECURSIVE join(_, _)
join(items, sep) ==
    IF items = <<>> THEN <<>>
    ELSE IF Len(items) = 1 THEN items[1]
    ELSE items[1] \o sep \o join(Tail(items), sep)

\* operator<< of a size_t: the decimal digits.
RECURSIVE toDecimal(_)
toDecimal(n) ==
    IF n < 10 THEN <<48 + n>>
    ELSE toDecimal(n \div 10) \o <<48 + (n % 10)>>

\* The text written for one constraint.
constraintText(c) ==
    IF c.kind = "PK" THEN MarkPK \o join(c.cols, <<44>>) \o <<41>>
    ELSE IF c.kind = "UQ" THEN MarkUQ \o join(c.cols, <<44>>) \o <<41>>
    ELSE MarkFK \o join(c.cols, <<44>>) \o MarkArrow \o c.ref
         \o <<40>> \o join(c.refcols, <<44>>) \o <<41>>

\* The line written for one record: the values in schema column order, the
\* empty string for a column the record lacks.
recordLine(record, columns) ==
    join([i \in 1..Len(columns) |->
             IF hasColumn(record, columns[i]) THEN getValue(record, columns[i]) ELSE <<>>],
         <<124>>)

\* The frame written for one table.
tableFrame(tableName, table) ==
    MarkTable \o tableName \o <<10>>
    \o MarkColumns \o join(table.cols, <<44>>) \o <<10>>
    \o MarkConstraints
    \o join([i \in 1..Len(table.cons) |-> constraintText(table.cons[i])], <<59>>) \o <<10>>
    \o MarkRecords \o toDecimal(Len(table.recs)) \o <<10>>
    \o join([k \in 1..Len(table.recs) |-> recordLine(table.recs[k], table.cols) \o <<10>>], <<>>)
    \o MarkEndTable \o <<10>>

\* The serialized data for the tables visited in the given order.
serialize(tabs, order) ==
    join([i \in 1..Len(order) |-> tableFrame(order[i], tabs[order[i]])], <<>>)

(***************************************************************************)
(* Database.cpp: the XOR cipher.                                           *)
(***************************************************************************)
RECURSIVE xorByte(_, _)
xorByte(a, b) ==
    IF a = 0 THEN b
    ELSE IF b = 0 THEN a
    ELSE ((a + b) % 2) + 2 * xorByte(a \div 2, b \div 2)

\* The cipher with the key index clamped to the key instead of wrapped.
encryptDataNoWrap(data, key) ==
    [i \in 1..Len(data) |-> xorByte(data[i], key[Min(i, Len(key))])]

encryptData(data, key) ==
    [i \in 1..Len(data) |-> xorByte(data[i], key[((i - 1) % Len(key)) + 1])]

decryptData(data, key) ==
    [i \in 1..Len(data) |-> xorByte(data[i], key[((i - 1) % Len(key)) + 1])]

(***************************************************************************)
(* Database.cpp: parsing the frames.                                       *)
(***************************************************************************)
\* The constraint parsed from one token of the CONSTRAINTS: line, as a
\* sequence of zero or one constraint.
parseConstraintToken(token) ==
    IF startsWith(token, MarkPK)
    THEN <<PK(split(substr(token, 3, Len(token) - 4), 44))>>
    ELSE IF startsWith(token, MarkUQ)
    THEN <<UQ(split(substr(token, 3, Len(token) - 4), 44))>>
    ELSE IF startsWith(token, MarkFK)
    THEN LET posArrow == findStr(token, MarkArrow) - 1
         IN IF posArrow < 0 THEN <<>>
            ELSE LET localPart == substr(token, 3, posArrow - 3)
                     rest == substrFrom(token, posArrow + 3)
                     posParen == find(rest, 40) - 1
                 IN IF posParen < 0 THEN <<>>
                    ELSE <<FK(split(localPart, 44),
                              trim(substr(rest, 0, posParen)),
                              split(substr(rest, posParen + 1, Len(rest) - posParen - 2), 44))>>
    ELSE <<>>

RECURSIVE parseConstraintTokens(_, _)
parseConstraintTokens(tokens, i) ==
    IF i > Len(tokens) THEN <<>>
    ELSE parseConstraintToken(tokens[i]) \o parseConstraintTokens(tokens, i + 1)

parseConstraints(constraintsStr) ==
    IF constraintsStr = <<>> THEN <<>>
    ELSE parseConstraintTokens(split(constraintsStr, 59), 1)

\* std::stoi: leading white space, an optional sign, then decimal digits;
\* ok is FALSE where stoi throws (no digit, or a value outside int).  The
\* digits are accumulated as a negative number, which covers INT_MIN.
RECURSIVE digitsValue(_, _, _)
digitsValue(s, i, acc) ==
    IF i > Len(s) \/ s[i] < 48 \/ s[i] > 57 THEN [ok |-> TRUE, val |-> acc]
    ELSE IF acc < 0 - 214748364 \/ (acc = 0 - 214748364 /\ s[i] - 48 > 8)
    THEN [ok |-> FALSE, val |-> 0]
    ELSE digitsValue(s, i + 1, 10 * acc - (s[i] - 48))

RECURSIVE skipSpace(_, _)
skipSpace(s, i) ==
    IF i <= Len(s) /\ s[i] \in {32, 9, 10, 11, 12, 13} THEN skipSpace(s, i + 1) ELSE i

stoi(s) ==
    LET i == skipSpace(s, 1)
        signed == i <= Len(s) /\ s[i] \in {43, 45}
        neg == i <= Len(s) /\ s[i] = 45
        j == IF signed THEN i + 1 ELSE i
        hasDigit == j <= Len(s) /\ s[j] >= 48 /\ s[j] <= 57
        m == digitsValue(s, j, 0)
    IN IF ~hasDigit \/ ~m.ok THEN [ok |-> FALSE, val |-> 0]
       ELSE IF neg THEN [ok |-> TRUE, val |-> m.val]
       ELSE IF m.val < 0 - 2147483647 THEN [ok |-> FALSE, val |-> 0]
       ELSE [ok |-> TRUE, val |-> 0 - m.val]

\* The record built from one record line.
parseRecord(line, columnNames) ==
    LET values == split(line, 124)
    IN setAll(EmptyRecord,
              [j \in 1..Len(columnNames) |->
                  <<columnNames[j], IF j <= Len(values) THEN values[j] ELSE <<>>>>],
              1)

\* The record loop: each line read is inserted with Table::insertRecord,
\* whose result is ignored.
RECURSIVE loadRecords(_, _, _, _, _)
loadRecords(table, lines, from, n, columnNames) ==
    IF n <= 0 THEN table
    ELSE loadRecords(insertRecord(table, parseRecord(trim(lines[from]), columnNames)).table,
                     lines, from + 1, n - 1, columnNames)

\* The while loop over the lines from line i on, with the tables added so
\* far.  res is "ok" (return true), "fail" (return false) or "crash" (stoi
\* threw, nothing catches it).
RECURSIVE parseFrames(_, _, _)
parseFrames(lines, i, tabs) ==
    IF i > Len(lines) THEN [res |-> "ok", tables |-> tabs]
    ELSE LET line == trim(lines[i])
         IN IF line = <<>> \/ ~startsWith(line, MarkTable)
            THEN parseFrames(lines, i + 1, tabs)
            ELSE
            LET tableName == trim(substrFrom(line, 6))
                hasL(k) == i + k <= Len(lines)
                lineAt(k) == trim(lines[i + k])
            IN IF ~hasL(1) THEN [res |-> "ok", tables |-> tabs]
               ELSE IF ~startsWith(lineAt(1), MarkColumns) THEN [res |-> "fail", tables |-> tabs]
               ELSE IF ~hasL(2) THEN [res |-> "ok", tables |-> tabs]
               ELSE IF ~startsWith(lineAt(2), MarkConstraints) THEN [res |-> "fail", tables |-> tabs]
               ELSE IF ~hasL(3) THEN [res |-> "ok", tables |-> tabs]
               ELSE IF ~startsWith(lineAt(3), MarkRecords) THEN [res |-> "fail", tables |-> tabs]
               ELSE
               LET columnNames == split(trim(substrFrom(lineAt(1), 8)), 44)
                   constraints == parseConstraints(trim(substrFrom(lineAt(2), 12)))
                   count == stoi(trim(substrFrom(lineAt(3), 8)))
               IN IF ~count.ok THEN [res |-> "crash", tables |-> tabs]
                  ELSE
                  LET avail == Len(lines) - (i + 3)
                      nread == IF count.val < 0 THEN 0 ELSE Min(count.val, avail)
                      table == loadRecords(NewTable([cols |-> columnNames, cons |-> constraints]),
                                           lines, i + 4, nread, columnNames)
                      endAt == i + 4 + nread
                  IN IF endAt > Len(lines) THEN [res |-> "ok", tables |-> tabs]
                     ELSE IF trim(lines[endAt]) /= MarkEndTable
                     THEN [res |-> "fail", tables |-> tabs]
                     ELSE parseFrames(lines, endAt + 1,
                              [n \in (DOMAIN tabs) \cup {tableName} |->
                                  IF n = tableName THEN table ELSE tabs[n]])

\* Database::loadFromFile once the file is open: decrypt, clear the tables,
\* parse.
loadData(encryptedData, key) ==
    parseFrames(getlineTokens(decryptData(encryptedData, key), 10), 1, <<>>)

(***************************************************************************)
(* Database.cpp: the operations on the catalog.  tabs maps the names of    *)
(* the tables held to the tables.                                          *)
(***************************************************************************)
getTable(tabs, tableName) == tableName \in DOMAIN tabs

addTable(tabs, tableName, table) ==
    [n \in (DOMAIN tabs) \cup {tableName} |-> IF n = tableName THEN table ELSE tabs[n]]

\* The Record built by Database::insert from the column and value lists.
insertRecordOf(columns, values) ==
    setAll(EmptyRecord,
           [i \in 1..Len(columns) |-> <<columns[i], removeApostrophe(values[i])>>], 1)

insert(tabs, tableName, columns, values) ==
    IF ~getTable(tabs, tableName)
    THEN [ok |-> FALSE, why |-> "notable", tables |-> tabs]
    ELSE IF Len(columns) /= Len(values)
    THEN [ok |-> FALSE, why |-> "mismatch", tables |-> tabs]
    ELSE LET r == insertRecord(tabs[tableName], insertRecordOf(columns, values))
         IN [ok |-> r.ok, why |-> r.why, tables |-> [tabs EXCEPT ![tableName] = r.table]]

\* Database::update with the patched table checked against its primary
\* key and unique constraints, and the update refused when it breaks one.
updateRevalidated(tabs, tableName, assignments, condition) ==
    IF ~getTable(tabs, tableName)
    THEN [ok |-> FALSE, why |-> "notable", tables |-> tabs]
    ELSE LET r == updateRecord(tabs[tableName], setAll(EmptyRecord, assignments, 1), condition)
             recs == r.table.recs
             broken(c) ==
                 /\ c.kind \in {"PK", "UQ"}
                 /\ \E k \in 1..Len(recs) :
                        checkConstraint(SubSeq(recs, 1, k - 1), recs[k], c) /= "ok"
         IN IF \E i \in 1..Len(r.table.cons) : broken(r.table.cons[i])
            THEN [ok |-> FALSE, why |-> "constraint", tables |-> tabs]
            ELSE [ok |-> r.ok, why |-> r.why, tables |-> [tabs EXCEPT ![tableName] = r.table]]

update(tabs, tableName, assignments, condition) ==
    IF ~getTable(tabs, tableName)
    THEN [ok |-> FALSE, why |-> "notable", tables |-> tabs]
    ELSE LET r == updateRecord(tabs[tableName], setAll(EmptyRecord, assignments, 1), condition)
         IN [ok |-> r.ok, why |-> r.why, tables |-> [tabs EXCEPT ![tableName] = r.table]]

remove(tabs, tableName, condition) ==
    IF ~getTable(tabs, tableName)
    THEN [ok |-> FALSE, why |-> "notable", tables |-> tabs]
    ELSE LET r == deleteRecord(tabs[tableName], condition)
         IN [ok |-> r.ok, why |-> r.why, tables |-> [tabs EXCEPT ![tableName] = r.table]]

\* Helper of Database::select: does the record qualify under the condition.
evaluateCondition(record, condition) ==
    LET cond == trim(condition)
    IN IF cond = <<>> THEN TRUE
       ELSE IF find(cond, 61) = 0 THEN FALSE
       ELSE recordMatches(record,
                          trim(substr(cond, 0, find(cond, 61) - 1)),
                          removeApostrophe(trim(substrFrom(cond, find(cond, 61)))))

StarColumns == <<<<42>>>>        \* the column list ["*"]

\* What Database::select prints for one record: with "*" every pair of the
\* record in the unspecified order of the map (a set), otherwise the pairs of
\* the listed columns the record has, in the order listed.
selectRow(record, columns) ==
    IF columns = StarColumns
    THEN [listed |-> <<>>, every |-> {<<c, record[c]>> : c \in DOMAIN record}]
    ELSE LET Has(col) == hasColumn(record, col)
             present == SelectSeq(columns, Has)
         IN [listed |-> [i \in 1..Len(present) |-> <<present[i], record[present[i]]>>],
             every |-> {}]

\* The positions of the records Database::select prints.
selected(records, condition) ==
    {k \in 1..Len(records) : condition = <<>> \/ evaluateCondition(records[k], condition)}

RECURSIVE selectRows(_, _, _, _)
selectRows(records, columns, condition, k) ==
    IF k > Len(records) THEN <<>>
    ELSE (IF k \in selected(records, condition)
          THEN <<selectRow(records[k], columns)>> ELSE <<>>)
         \o selectRows(records, columns, condition, k + 1)

select(tabs, tableName, columns, condition) ==
    IF ~getTable(tabs, tableName)
    THEN [ok |-> FALSE, out |-> <<>>]
    ELSE [ok |-> TRUE, out |-> selectRows(tabs[tableName].recs, columns, condition, 1)]

\* The cascade without the test of the referenced table: every foreign key goes.
stripAllForeignKeys(constraints, tableName) ==
    LET Keep(c) == c.kind /= "FK"
    IN SelectSeq(constraints, Keep)

\* The constraints left in a schema by Database::dropTable(tableName).
stripForeignKeys(constraints, tableName) ==
    LET Keep(c) == ~(c.kind = "FK" /\ c.ref = tableName)
    IN SelectSeq(constraints, Keep)

\* Database::dropTable without the test that the table exists.
dropTableUnchecked(tabs, tableName) ==
    [ok |-> TRUE,
     tables |-> [n \in (DOMAIN tabs) \ {tableName} |->
                    [tabs[n] EXCEPT !.cons = stripForeignKeys(@, tableName)]]]

dropTable(tabs, tableName) ==
    IF ~getTable(tabs, tableName)
    THEN [ok |-> FALSE, tables |-> tabs]
    ELSE [ok |-> TRUE,
          tables |-> [n \in (DOMAIN tabs) \ {tableName} |->
                         [tabs[n] EXCEPT !.cons = stripForeignKeys(@, tableName)]]]

(***************************************************************************)
(* The state of the program.                                               *)
(***************************************************************************)
VARIABLES
    tables,     \* Database::tables: table name -> Table
    file,       \* the database file: does it exist, and its bytes
    last,       \* the last engine call: operation, arguments, result, output
    cipher      \* a run of the cipher on its own: data, key, output, stage

vars == <<tables, file, last, cipher>>

\* The records the named table holds, 0 when there is no such table.
RecordsIn(tabs, tableName) ==
    IF tableName \in DOMAIN tabs THEN Len(tabs[tableName].recs) ELSE 0

\* The record of an engine call: the operation, the table it names, its
\* result, the condition and the other argument given, what it printed, and
\* the number of records the table held before the call.  res is "ok"
\* (returned true), "fail" (returned false) or "crash" (ended in an uncaught
\* exception).
Call(op, tbl, res, why, cond, arg, out) ==
    [op |-> op, tbl |-> tbl, res |-> res, why |-> why, cond |-> cond, arg |-> arg,
     out |-> out, before |-> RecordsIn(tables, tbl)]

BoolRes(ok) == IF ok THEN "ok" ELSE "fail"

CipherIdle == [stage |-> "idle", data |-> <<>>, key |-> <<>>, out |-> <<>>]

(***************************************************************************)
(* The inputs of the engine calls.  A menu m gives the sets the calls of   *)
(* one specification draw their arguments from.                            *)
(***************************************************************************)
TableNames == {TabT, TabU}

SchemaKeys == [cols |-> <<ColA, ColB>>, cons |-> <<PK(<<ColA>>), UQ(<<ColB>>)>>]
SchemaNone == [cols |-> <<ColA, ColB>>, cons |-> <<>>]
SchemaPair == [cols |-> <<ColA, ColB>>, cons |-> <<PK(<<ColA, ColB>>)>>]
SchemaRefs ==
    [cols |-> <<ColA, ColB>>,
     cons |-> <<FK(<<ColA>>, TabT, <<ColA>>), UQ(<<ColB>>), FK(<<ColB>>, TabU, <<ColA>>)>>]

SchemaTwice == [cols |-> <<ColA, ColB, ColA>>, cons |-> <<>>]

\* (columns, values) of an insert.
RowXY == <<<<ColA, ColB>>, <<ValX, ValY>>>>
RowQXX == <<<<ColA, ColB>>, <<ValQX, ValX>>>>
RowYY == <<<<ColA, ColB>>, <<ValY, ValY>>>>
RowYX == <<<<ColA, ColB>>, <<ValY, ValX>>>>
RowEX == <<<<ColA, ColB>>, <<Empty, ValX>>>>
RowBX == <<<<ColB>>, <<ValX>>>>
RowShort == <<<<ColA, ColB>>, <<ValX>>>>

CondNone == <<>>                                  \* ""
CondAX == <<97, 32, 61, 32, 120>>                 \* "a = x"
CondAQX == <<97, 32, 61, 32, 39, 120, 39>>        \* "a = 'x'"

CondBare == <<97>>                                \* "a"
CondNoEq == <<97, 32, 120>>                       \* "a x"

SetAY == <<<<ColA, ValY>>>>                       \* SET a = y

SetAE == <<<<ColA, Empty>>>>                      \* SET a = ''
KeyK == <<107>>                                   \* "k"
KeyWK == <<119, 107>>                             \* "wk"

TableMenu ==
    [names |-> TableNames,
     schemas |-> {SchemaKeys, SchemaNone},
     rows |-> {RowXY, RowQXX, RowYY, RowEX, RowBX, RowShort},
     assignments |-> {SetAY},
     conditions |-> {LitAll, CondNone, CondAX, CondAQX},
     columns |-> {<<ColB, ColA>>},
     dropped |-> {},
     flushKeys |-> {},
     loadKeys |-> {}]

InsertMenu ==
    [names |-> TableNames,
     schemas |-> {SchemaKeys, SchemaNone, SchemaPair},
     rows |-> {RowXY, RowQXX, RowYY, RowYX, RowEX, RowBX, RowShort},
     assignments |-> {},
     conditions |-> {},
     columns |-> {},
     dropped |-> {},
     flushKeys |-> {},
     loadKeys |-> {}]

CatalogMenu ==
    [names |-> TableNames,
     schemas |-> {SchemaKeys, SchemaRefs},
     rows |-> {RowXY, RowYX},
     assignments |-> {},
     conditions |-> {},
     columns |-> {},
     dropped |-> {},
     flushKeys |-> {},
     loadKeys |-> {}]

FileMenu ==
    [names |-> TableNames,
     schemas |-> {SchemaKeys},
     rows |-> {RowXY},
     assignments |-> {},
     conditions |-> {},
     columns |-> {},
     dropped |-> {ColA},
     flushKeys |-> {KeyK},
     loadKeys |-> {KeyK, KeyWK}]

ConditionMenu ==
    [names |-> TableNames,
     schemas |-> {SchemaNone},
     rows |-> {RowXY, RowYY, RowBX},
     assignments |-> {SetAY},
     conditions |-> {CondNone, LitAll, CondBare, CondNoEq, CondAX},
     columns |-> {<<ColB, ColA>>},
     dropped |-> {},
     flushKeys |-> {},
     loadKeys |-> {}]

SchemaMenu ==
    [names |-> TableNames,
     schemas |-> {SchemaKeys, SchemaTwice},
     rows |-> {RowXY, RowYX, RowBX},
     assignments |-> {SetAY},
     conditions |-> {CondAX},
     columns |-> {},
     dropped |-> {ColA, ColC},
     flushKeys |-> {},
     loadKeys |-> {}]

DiskMenu ==
    [names |-> TableNames,
     schemas |-> {SchemaKeys},
     rows |-> {RowXY},
     assignments |-> {},
     conditions |-> {},
     columns |-> {},
     dropped |-> {},
     flushKeys |-> {KeyK},
     loadKeys |-> {KeyK}]

\* A RECORDS: line whose count is not a number.
BadCountLine == MarkRecords \o <<120>>            \* "RECORDS:x"

\* The text of the lines, each ended by a newline.
unlines(lines) == join([i \in 1..Len(lines) |-> lines[i] \o <<10>>], <<>>)

\* What may be found in place of a file of the given lines when it is read
\* back: the file without one of its lines, the file cut after one of its
\* lines, and the file with the count of a RECORDS: line unreadable.
Damaged(lines) ==
    {SubSeq(lines, 1, i - 1) \o SubSeq(lines, i + 1, Len(lines)) : i \in 1..Len(lines)}
    \cup {SubSeq(lines, 1, i) : i \in 1..(Len(lines) - 1)}
    \cup {[lines EXCEPT ![i] = BadCountLine] :
              i \in {j \in 1..Len(lines) : startsWith(lines[j], MarkRecords)}}

\* A file written elsewhere in the frame format: the given lines with a
\* column of the empty name added at the end of each COLUMNS: line.
WithUnnamedColumn(lines) ==
    [i \in 1..Len(lines) |->
        IF startsWith(lines[i], MarkColumns) THEN lines[i] \o <<44, 44>> ELSE lines[i]]

ReloadMenu ==
    [names |-> {TabT},
     schemas |-> {SchemaKeys, SchemaNone},
     rows |-> {RowXY, RowYX},
     assignments |-> {},
     conditions |-> {},
     columns |-> {},
     dropped |-> {},
     flushKeys |-> {KeyK},
     loadKeys |-> {KeyK}]

QueryMenu ==
    [names |-> {TabT},
     schemas |-> {SchemaKeys, SchemaNone},
     rows |-> {RowXY, RowShort},
     assignments |-> {},
     conditions |-> {},
     columns |-> {},
     dropped |-> {},
     flushKeys |-> {KeyK},
     loadKeys |-> {KeyK}]

\* The verbs QueryProcessor::execute dispatches on, as far as they are
\* modelled, and a verb it does not know.
QueryVerbs == {"create", "insert", "dropTable", "flush", "load"}

RuleMenu ==
    [names |-> {TabT},
     schemas |-> {SchemaKeys, SchemaRefs, SchemaPair},
     rows |-> {RowXY, RowYY, RowYX, RowEX, RowBX},
     assignments |-> {},
     conditions |-> {},
     columns |-> {},
     dropped |-> {ColB},
     flushKeys |-> {},
     loadKeys |-> {}]

DeleteMenu ==
    [names |-> TableNames,
     schemas |-> {SchemaNone},
     rows |-> {RowXY, RowYX, RowBX},
     assignments |-> {},
     conditions |-> {CondAX, CondAQX},
     columns |-> {},
     dropped |-> {},
     flushKeys |-> {},
     loadKeys |-> {}]

UpdateMenu ==
    [names |-> {TabT},
     schemas |-> {SchemaKeys, SchemaPair},
     rows |-> {RowXY, RowYX, RowYY},
     assignments |-> {SetAY, SetAE},
     conditions |-> {CondAX, LitAll},
     columns |-> {},
     dropped |-> {},
     flushKeys |-> {},
     loadKeys |-> {}]

UniqueMenu ==
    [names |-> {TabT},
     schemas |-> {SchemaKeys, SchemaPair},
     rows |-> {RowXY, RowYX, RowYY, RowEX},
     assignments |-> {},
     conditions |-> {CondAX},
     columns |-> {},
     dropped |-> {ColB},
     flushKeys |-> {KeyK},
     loadKeys |-> {KeyK}]

ValidateMenu ==
    [names |-> {TabT},
     schemas |-> {SchemaKeys},
     rows |-> {RowXY, RowYX},
     assignments |-> {},
     conditions |-> {},
     columns |-> {},
     dropped |-> {},
     flushKeys |-> {},
     loadKeys |-> {}]

\* The constraints whose validators are called.
ValidatedConstraints ==
    {PK(<<ColA>>), PK(<<ColA, ColB>>), UQ(<<ColA>>), UQ(<<ColA, ColB>>),
     FK(<<ColA>>, TabT, <<ColA>>), FK(<<ColA, ColB>>, TabU, <<ColA, ColB>>)}

\* The inputs of the cipher on its own.
CipherBytes == {0, 10, 107, 255}
CipherKeys == {<<107>>, <<119, 107>>, <<255, 0, 10>>}

RECURSIVE SeqsUpTo(_, _)
SeqsUpTo(S, n) ==
    IF n = 0 THEN {<<>>}
    ELSE LET shorter == SeqsUpTo(S, n - 1)
         IN shorter \cup {Append(q, e) : q \in {r \in shorter : Len(r) = n - 1}, e \in S}

\* The lists of values a validator is given.
ValueLists == SeqsUpTo({Empty, ValX, ValY}, MaxValues)

\* The orders in which the unordered_map may be iterated.
Orders(names) ==
    {o \in [1..Cardinality(names) -> names] : \A n \in names : \E i \in DOMAIN o : o[i] = n}

RECURSIVE SumRecords(_, _)
SumRecords(tabs, names) ==
    IF names = {} THEN 0
    ELSE LET n == CHOOSE m \in names : TRUE
         IN Len(tabs[n].recs) + SumRecords(tabs, names \ {n})

\* The records held by all the tables together.
TotalRecords(tabs) == SumRecords(tabs, DOMAIN tabs)

(***************************************************************************)
(* The engine calls.                                                       *)
(***************************************************************************)
Running == last.res /= "crash"

Init ==
    /\ tables = <<>>
    /\ file = [exists |-> FALSE, data |-> <<>>]
    /\ last = Call("init", <<>>, "ok", "", <<>>, <<>>, <<>>)
    /\ cipher = CipherIdle

\* Database::addTable with a new Table of the schema.
AddTable(m) ==
    \E name \in m.names, schema \in m.schemas :
        /\ Running
        /\ tables' = addTable(tables, name, NewTable(schema))
        /\ last' = Call("addTable", name, "ok", "", <<>>, schema, <<>>)
        /\ UNCHANGED <<file, cipher>>

Insert(m) ==
    \E name \in m.names, row \in m.rows :
        /\ Running
        /\ LET r == insert(tables, name, row[1], row[2])
           IN /\ TotalRecords(r.tables) <= MaxRecs
              /\ tables' = r.tables
              /\ last' = Call("insert", name, BoolRes(r.ok), r.why, <<>>, row, <<>>)
        /\ UNCHANGED <<file, cipher>>

\* Database::insert where up to MaxKept records are held.
InsertSeveral(m) ==
    \E name \in m.names, row \in m.rows :
        /\ Running
        /\ LET r == insert(tables, name, row[1], row[2])
           IN /\ TotalRecords(r.tables) <= MaxKept
              /\ tables' = r.tables
              /\ last' = Call("insert", name, BoolRes(r.ok), r.why, <<>>, row, <<>>)
        /\ UNCHANGED <<file, cipher>>

Update(m) ==
    \E name \in m.names, assignments \in m.assignments, condition \in m.conditions :
        /\ Running
        /\ LET r == update(tables, name, assignments, condition)
           IN /\ tables' = r.tables
              /\ last' = Call("update", name, BoolRes(r.ok), r.why, condition,
                              setAll(EmptyRecord, assignments, 1), <<>>)
        /\ UNCHANGED <<file, cipher>>

Remove(m) ==
    \E name \in m.names, condition \in m.conditions :
        /\ Running
        /\ LET r == remove(tables, name, condition)
           IN /\ tables' = r.tables
              /\ last' = Call("remove", name, BoolRes(r.ok), r.why, condition, <<>>, <<>>)
        /\ UNCHANGED <<file, cipher>>

\* Database::select with the listed columns looked up by the map's
\* operator[], which stores the empty string for a column a record lacks.
SelectFilling(m) ==
    \E name \in m.names, columns \in m.columns, condition \in m.conditions :
        /\ Running
        /\ LET r == select(tables, name, columns, condition)
               Filled(record) ==
                   [c \in (DOMAIN record) \cup {columns[i] : i \in 1..Len(columns)} |->
                       IF c \in DOMAIN record THEN record[c] ELSE <<>>]
           IN /\ last' = Call("select", name, BoolRes(r.ok), "", condition, columns, r.out)
              /\ tables' =
                    IF ~getTable(tables, name) THEN tables
                    ELSE [tables EXCEPT ![name].recs =
                             [k \in 1..Len(@) |->
                                 IF k \in selected(@, condition) THEN Filled(@[k]) ELSE @[k]]]
        /\ UNCHANGED <<file, cipher>>

Select(m) ==
    \E name \in m.names, columns \in m.columns, condition \in m.conditions :
        /\ Running
        /\ LET r == select(tables, name, columns, condition)
           IN last' = Call("select", name, BoolRes(r.ok), "", condition, columns, r.out)
        /\ UNCHANGED <<tables, file, cipher>>

\* QueryProcessor::parseDropColumn: getTable, then Table::dropColumn.
DropColumn(m) ==
    \E name \in m.names, column \in m.dropped :
        /\ Running
        /\ IF ~getTable(tables, name)
           THEN /\ last' = Call("dropColumn", name, "fail", "notable", <<>>, column, <<>>)
                /\ UNCHANGED tables
           ELSE LET r == dropColumn(tables[name], column)
                IN /\ tables' = [tables EXCEPT ![name] = r.table]
                   /\ last' = Call("dropColumn", name, BoolRes(r.ok), "", <<>>, column, <<>>)
        /\ UNCHANGED <<file, cipher>>

DropTable(m) ==
    \E name \in m.names :
        /\ Running
        /\ LET r == dropTable(tables, name)
           IN /\ tables' = r.tables
              /\ last' = Call("dropTable", name, BoolRes(r.ok), "", <<>>, <<>>, <<>>)
        /\ UNCHANGED <<file, cipher>>

\* Database::flushToFile: the file may fail to open for writing.
Flush(m) ==
    \E key \in m.flushKeys, order \in Orders(DOMAIN tables), opened \in BOOLEAN :
        /\ Running
        /\ IF opened
           THEN file' = [exists |-> TRUE,
                         data |-> encryptData(serialize(tables, order), key)]
           ELSE UNCHANGED file
        /\ last' = Call("flush", <<>>, BoolRes(opened), "", <<>>, key, <<>>)
        /\ UNCHANGED <<tables, cipher>>

\* Database::loadFromFile with tables.clear() ahead of the test that the file
\* opened.
LoadClearsFirst(m) ==
    \E key \in m.loadKeys :
        /\ Running
        /\ IF ~file.exists
           THEN /\ last' = Call("load", <<>>, "fail", "open", <<>>, key, <<>>)
                /\ tables' = <<>>
           ELSE LET r == loadData(file.data, key)
                IN /\ tables' = r.tables
                   /\ last' = Call("load", <<>>, r.res, "", <<>>, key, <<>>)
        /\ UNCHANGED <<file, cipher>>

\* Database::loadFromFile: a file that does not exist fails to open.
Load(m) ==
    \E key \in m.loadKeys :
        /\ Running
        /\ IF ~file.exists
           THEN /\ last' = Call("load", <<>>, "fail", "open", <<>>, key, <<>>)
                /\ UNCHANGED tables
           ELSE LET r == loadData(file.data, key)
                IN /\ tables' = r.tables
                   /\ last' = Call("load", <<>>, r.res, "", <<>>, key, <<>>)
        /\ UNCHANGED <<file, cipher>>

\* The file is not the engine's alone: between a flush and the next call its
\* bytes may be replaced, and Database::loadFromFile reads what is there.
Damage(m) ==
    \E key \in m.flushKeys :
        /\ Running
        /\ last.op = "flush" /\ last.res = "ok" /\ last.arg = key
        /\ \E lines \in Damaged(getlineTokens(decryptData(file.data, key), 10)) :
               file' = [exists |-> TRUE, data |-> encryptData(unlines(lines), key)]
        /\ last' = Call("damage", <<>>, "ok", "", <<>>, key, <<>>)
        /\ UNCHANGED <<tables, cipher>>

\* Database::loadFromFile reads whatever file has the name: here one whose
\* COLUMNS: lines name a further column, of the empty name, put in the place
\* of a file flushed from tables that have no such column.
Replace(m) ==
    \E key \in m.flushKeys :
        /\ Running
        /\ last.op = "flush" /\ last.res = "ok" /\ last.arg = key
        /\ \A n \in DOMAIN tables : ~schemaHasColumn(tables[n].cols, Empty)
        /\ file' = [exists |-> TRUE,
                    data |-> encryptData(
                        unlines(WithUnnamedColumn(
                            getlineTokens(decryptData(file.data, key), 10))), key)]
        /\ last' = Call("replace", <<>>, "ok", "", <<>>, key, <<>>)
        /\ UNCHANGED <<tables, cipher>>

\* QueryProcessor::parseCreate once the statement has matched and its body
\* has given the schema: a table of that name is looked up first.
parseCreateNoLookup(tabs, tableName, schema) ==
    [why |-> "ok", tables |-> addTable(tabs, tableName, NewTable(schema))]

parseCreate(tabs, tableName, schema) ==
    IF getTable(tabs, tableName)
    THEN [why |-> "exists", tables |-> tabs]
    ELSE [why |-> "ok", tables |-> addTable(tabs, tableName, NewTable(schema))]

\* The record of a call of QueryProcessor::execute: res is what execute
\* returned, why is what the handler it dispatched to met: "ok", "fail" (the
\* engine operation returned false), "exists", "syntax" (the statement did
\* not match the handler's pattern) or "unsupported".
Executed(res, why, tbl, command) ==
    Call("execute", tbl, res, why, <<>>, command, <<>>)

\* execute on a CREATE TABLE statement that matches.
ExecuteCreate(m) ==
    \E name \in m.names, schema \in m.schemas :
        /\ Running
        /\ LET r == parseCreate(tables, name, schema)
           IN /\ tables' = r.tables
              /\ last' = Executed("ok", r.why, name, [verb |-> "create", schema |-> schema])
        /\ UNCHANGED <<file, cipher>>

\* execute on an INSERT statement that matches: parseInsert reports a
\* failed Database::insert and returns nothing.
ExecuteInsert(m) ==
    \E name \in m.names, row \in m.rows :
        /\ Running
        /\ LET r == insert(tables, name, row[1], row[2])
           IN /\ TotalRecords(r.tables) <= MaxRecs
              /\ tables' = r.tables
              /\ last' = Executed("ok", BoolRes(r.ok), name, [verb |-> "insert", row |-> row])
        /\ UNCHANGED <<file, cipher>>

\* execute on a DROP TABLE statement that matches.
ExecuteDropTable(m) ==
    \E name \in m.names :
        /\ Running
        /\ LET r == dropTable(tables, name)
           IN /\ tables' = r.tables
              /\ last' = Executed("ok", BoolRes(r.ok), name, [verb |-> "dropTable"])
        /\ UNCHANGED <<file, cipher>>

\* execute on a FLUSH statement with a file name and a key.
ExecuteFlush(m) ==
    \E key \in m.flushKeys, order \in Orders(DOMAIN tables), opened \in BOOLEAN :
        /\ Running
        /\ IF opened
           THEN file' = [exists |-> TRUE,
                         data |-> encryptData(serialize(tables, order), key)]
           ELSE UNCHANGED file
        /\ last' = Executed("ok", BoolRes(opened), <<>>, [verb |-> "flush", key |-> key])
        /\ UNCHANGED <<tables, cipher>>

\* execute on a LOAD statement with a file name and a key.
ExecuteLoad(m) ==
    \E key \in m.loadKeys :
        /\ Running
        /\ IF ~file.exists
           THEN /\ last' = Executed("ok", "fail", <<>>, [verb |-> "load", key |-> key])
                /\ UNCHANGED tables
           ELSE LET r == loadData(file.data, key)
                IN /\ tables' = r.tables
                   /\ last' = Executed(IF r.res = "crash" THEN "crash" ELSE "ok", r.res, <<>>,
                                       [verb |-> "load", key |-> key])
        /\ UNCHANGED <<file, cipher>>

\* execute on a statement that starts with a known verb and does not match
\* the handler's pattern: the handler reports it and returns nothing.
ExecuteMalformed ==
    \E verb \in QueryVerbs :
        /\ Running
        /\ last' = Executed("ok", "syntax", <<>>, [verb |-> verb])
        /\ UNCHANGED <<tables, file, cipher>>

\* execute on a statement that starts with none of the known verbs.
ExecuteUnsupported ==
    /\ Running
    /\ last' = Executed("fail", "unsupported", <<>>, [verb |-> "other"])
    /\ UNCHANGED <<tables, file, cipher>>

\* A call of a constraint's validate on a list of values.
Validate ==
    \E constraint \in ValidatedConstraints, values \in ValueLists :
        /\ Running
        /\ last' = Call("validate", <<>>, BoolRes(validate(constraint, values)), "", <<>>,
                        [constraint |-> constraint, values |-> values], <<>>)
        /\ UNCHANGED <<tables, file, cipher>>

\* The record operations of the tables, without the file.
NextTable ==
    \/ AddTable(TableMenu)
    \/ Insert(TableMenu)
    \/ Update(TableMenu)
    \/ Remove(TableMenu)
    \/ Select(TableMenu)

SpecTable == Init /\ [][NextTable]_vars

\* Tables that are created and inserted into, and nothing else.
NextInsert ==
    \/ AddTable(InsertMenu)
    \/ Insert(InsertMenu)

SpecInsert == Init /\ [][NextInsert]_vars

\* Tables with constraints of every kind that are created, filled and dropped.
NextCatalog ==
    \/ AddTable(CatalogMenu)
    \/ Insert(CatalogMenu)
    \/ DropTable(CatalogMenu)

SpecCatalog == Init /\ [][NextCatalog]_vars

\* Tables that are created, filled, shrunk by a column, flushed and loaded.
NextFile ==
    \/ AddTable(FileMenu)
    \/ Insert(FileMenu)
    \/ DropColumn(FileMenu)
    \/ Flush(FileMenu)
    \/ Load(FileMenu)

SpecFile == Init /\ [][NextFile]_vars

\* The record operations under conditions of every form: empty, "all",
\* without '=', and an equality.
NextCondition ==
    \/ AddTable(ConditionMenu)
    \/ Insert(ConditionMenu)
    \/ Update(ConditionMenu)
    \/ Remove(ConditionMenu)
    \/ Select(ConditionMenu)

SpecCondition == Init /\ [][NextCondition]_vars

\* Tables and columns that are dropped, and calls that name tables and
\* columns that are not there.
NextSchema ==
    \/ AddTable(SchemaMenu)
    \/ Insert(SchemaMenu)
    \/ Update(SchemaMenu)
    \/ Remove(SchemaMenu)
    \/ DropColumn(SchemaMenu)
    \/ DropTable(SchemaMenu)

SpecSchema == Init /\ [][NextSchema]_vars

\* Tables that are flushed and loaded from a file that may have been cut or
\* altered in between.
NextDisk ==
    \/ AddTable(DiskMenu)
    \/ Insert(DiskMenu)
    \/ Flush(DiskMenu)
    \/ Damage(DiskMenu)
    \/ Load(DiskMenu)

SpecDisk == Init /\ [][NextDisk]_vars

\* The statements given to QueryProcessor::execute.
NextQuery ==
    \/ ExecuteCreate(QueryMenu)
    \/ ExecuteInsert(QueryMenu)
    \/ ExecuteDropTable(QueryMenu)
    \/ ExecuteFlush(QueryMenu)
    \/ ExecuteLoad(QueryMenu)
    \/ ExecuteMalformed
    \/ ExecuteUnsupported

SpecQuery == Init /\ [][NextQuery]_vars

\* Inserts into one table under each kind of constraint, with a column
\* dropped in between so that stored records may lack a key column.
NextRule ==
    \/ AddTable(RuleMenu)
    \/ Insert(RuleMenu)
    \/ DropColumn(RuleMenu)

SpecRule == Init /\ [][NextRule]_vars

\* Deletes by an equality from tables of up to three records.
NextDelete ==
    \/ AddTable(DeleteMenu)
    \/ InsertSeveral(DeleteMenu)
    \/ Remove(DeleteMenu)

SpecDelete == Init /\ [][NextDelete]_vars

\* Updates of the key columns of a table that has constraints.
NextUpdate ==
    \/ AddTable(UpdateMenu)
    \/ Insert(UpdateMenu)
    \/ Update(UpdateMenu)

SpecUpdate == Init /\ [][NextUpdate]_vars

\* Every operation that changes tables but the update.
NextUnique ==
    \/ AddTable(UniqueMenu)
    \/ Insert(UniqueMenu)
    \/ Remove(UniqueMenu)
    \/ DropColumn(UniqueMenu)
    \/ DropTable(UniqueMenu)
    \/ Flush(UniqueMenu)
    \/ Load(UniqueMenu)

SpecUnique == Init /\ [][NextUnique]_vars

\* The validators called beside a table that holds records.
NextValidate ==
    \/ AddTable(ValidateMenu)
    \/ Insert(ValidateMenu)
    \/ Validate

SpecValidate == Init /\ [][NextValidate]_vars

\* Tables flushed and loaded, from the file flushed or from one put in its
\* place.
NextReload ==
    \/ AddTable(ReloadMenu)
    \/ Insert(ReloadMenu)
    \/ Flush(ReloadMenu)
    \/ Replace(ReloadMenu)
    \/ Load(ReloadMenu)

SpecReload == Init /\ [][NextReload]_vars

\* The cipher applied to a byte sequence under a key, and applied again.
InitCipher ==
    /\ tables = <<>>
    /\ file = [exists |-> FALSE, data |-> <<>>]
    /\ last = Call("init", <<>>, "ok", "", <<>>, <<>>, <<>>)
    /\ \E data \in SeqsUpTo(CipherBytes, MaxData), key \in CipherKeys :
           cipher = [stage |-> "plain", data |-> data, key |-> key, out |-> <<>>]

Encrypt ==
    /\ cipher.stage = "plain"
    /\ cipher' = [cipher EXCEPT !.stage = "encrypted",
                                !.out = encryptData(cipher.data, cipher.key)]
    /\ UNCHANGED <<tables, file, last>>

Decrypt ==
    /\ cipher.stage = "encrypted"
    /\ cipher' = [cipher EXCEPT !.stage = "decrypted",
                                !.out = decryptData(cipher.out, cipher.key)]
    /\ UNCHANGED <<tables, file, last>>

NextCipher ==
    \/ Encrypt
    \/ Decrypt

SpecCipher == InitCipher /\ [][NextCipher]_vars

(***************************************************************************)
(* The properties.                                                         *)
(***************************************************************************)
\* The equality conditions the calls are given, read by the grammar of
\* conditions: the column compared, the value it is compared with, and
\* whether the literal is written in single quotes.
Equalities ==
    {[text |-> CondAX, column |-> ColA, value |-> ValX, quoted |-> FALSE],
     [text |-> CondAQX, column |-> ColA, value |-> ValX, quoted |-> TRUE]}

\* The record stores the value of the equality in its column.
Satisfies(record, e) == e.column \in DOMAIN record /\ record[e.column] = e.value

\* new is old with the columns of the patch set to the patch's values and
\* every other column kept.
PatchOf(new, old, patch) ==
    /\ DOMAIN new = (DOMAIN old) \cup (DOMAIN patch)
    /\ \A c \in DOMAIN patch : new[c] = patch[c]
    /\ \A c \in (DOMAIN old) \ (DOMAIN patch) : new[c] = old[c]

\* Every table but the named one is as it was, and the named one keeps its
\* columns and its constraints.
OnlyRecordsOf(name) ==
    /\ DOMAIN tables' = DOMAIN tables
    /\ \A n \in (DOMAIN tables) \ {name} : tables'[n] = tables[n]
    /\ tables'[name].cols = tables[name].cols
    /\ tables'[name].cons = tables[name].cons

\* The value a record shows for a column: the stored one, or the empty field
\* the file format writes for a column the record lacks.
Shown(record, column) == IF column \in DOMAIN record THEN record[column] ELSE <<>>

\* Two catalogs hold the same tables: the same names, columns in the same
\* order, the same constraints, and records in the same order showing the
\* same values in every column.
SameTables(T, L) ==
    /\ DOMAIN T = DOMAIN L
    /\ \A n \in DOMAIN T :
        /\ T[n].cols = L[n].cols
        /\ T[n].cons = L[n].cons
        /\ Len(T[n].recs) = Len(L[n].recs)
        /\ \A k \in 1..Len(T[n].recs) : \A i \in 1..Len(T[n].cols) :
               Shown(T[n].recs[k], T[n].cols[i]) = Shown(L[n].recs[k], T[n].cols[i])

\* C1: in a table reached by inserts alone, for every PRIMARY KEY constraint
\* on columns K no two stored records hold equal values in all of K.
C1_PrimaryKeyUnique ==
    \A n \in DOMAIN tables : \A c \in 1..Len(tables[n].cons) :
        tables[n].cons[c].kind = "PK" =>
            LET K == tables[n].cons[c].cols
                recs == tables[n].recs
            IN \A j, k \in 1..Len(recs) :
                   j /= k =>
                       ~(\A i \in 1..Len(K) :
                             /\ K[i] \in DOMAIN recs[j]
                             /\ K[i] \in DOMAIN recs[k]
                             /\ recs[j][K[i]] = recs[k][K[i]])

\* C1 witness: a table with a two-column primary key holds two records and
\* has just refused a third that repeats a stored key.
C1_DuplicateKeyRefused ==
    /\ last.op = "insert" /\ last.res = "fail" /\ last.why = "duplicate"
    /\ last.tbl \in DOMAIN tables
    /\ tables[last.tbl].cons = SchemaPair.cons
    /\ Len(tables[last.tbl].recs) = 2

\* C2: an insert that fails, for a duplicate key, a missing or empty key
\* column, an unknown table or a count mismatch, leaves every table's record
\* sequence exactly as it was.
C2_FailedInsertChangesNothing ==
    [][(last'.op = "insert" /\ last'.res = "fail") => tables' = tables]_vars

\* C2 witness: an insert into a table holding two records has been refused
\* as a duplicate.
C2_InsertRefused ==
    /\ last.op = "insert" /\ last.res = "fail" /\ last.why = "duplicate"
    /\ last.before = 2
    /\ Len(tables[last.tbl].recs) = 2

\* C3: a load with the key of the flush just made succeeds and yields the
\* tables that were flushed: the same names, columns, constraints and
\* records.  The code does not keep it.
C3_RoundTrip ==
    [][(/\ last.op = "flush" /\ last.res = "ok"
        /\ last'.op = "load" /\ last'.arg = last.arg)
       => (last'.res = "ok" /\ SameTables(tables, tables'))]_vars

\* C4: a load of a file flushed from a catalog of at least one table, with a
\* key other than the key of the flush, does not report success.  The code
\* does not keep it.
C4_WrongKeyLoadFails ==
    [][(/\ last.op = "flush" /\ last.res = "ok" /\ DOMAIN tables /= {}
        /\ last'.op = "load" /\ last'.arg /= last.arg)
       => last'.res = "fail"]_vars

\* The exclusive or of two bytes, bit by bit.
Pow2 == <<1, 2, 4, 8, 16, 32, 64, 128>>
BitXor(a, b, j) == ((a \div Pow2[j]) + (b \div Pow2[j])) % 2
ByteXor(a, b) ==
    BitXor(a, b, 1) + 2 * BitXor(a, b, 2) + 4 * BitXor(a, b, 3) + 8 * BitXor(a, b, 4)
    + 16 * BitXor(a, b, 5) + 32 * BitXor(a, b, 6) + 64 * BitXor(a, b, 7)
    + 128 * BitXor(a, b, 8)

\* C5: for a non-empty key k the cipher text is as long as the data, its
\* byte i is the data's byte i XOR k[i mod len(k)], and the cipher applied
\* again under the same key gives the data back.
C5_CipherInvolution ==
    /\ cipher.stage \in {"encrypted", "decrypted"} =>
           Len(cipher.out) = Len(cipher.data)
    /\ cipher.stage = "encrypted" =>
           \A i \in 1..Len(cipher.data) :
               cipher.out[i] =
                   ByteXor(cipher.data[i], cipher.key[((i - 1) % Len(cipher.key)) + 1])
    /\ cipher.stage = "decrypted" => cipher.out = cipher.data

\* C5 witness: data longer than a key of two bytes, and not all zero, has
\* been encrypted and decrypted.
C5_Decrypted ==
    /\ cipher.stage = "decrypted"
    /\ Len(cipher.key) = 2
    /\ Len(cipher.data) > Len(cipher.key)
    /\ \E i \in 1..Len(cipher.data) : cipher.data[i] /= 0

\* C6: dropping a table A of the catalog removes A, removes from every
\* remaining table exactly the FOREIGN KEY constraints that reference A, and
\* leaves the remaining tables' columns, records and other constraints, in
\* their order, as they were.
C6_DropTableCascade ==
    [][(last'.op = "dropTable" /\ last'.tbl \in DOMAIN tables) =>
        LET A == last'.tbl
            Stays(c) == ~(c.kind = "FK" /\ c.ref = A)
        IN /\ DOMAIN tables' = (DOMAIN tables) \ {A}
           /\ \A n \in DOMAIN tables' :
                /\ tables'[n].cols = tables[n].cols
                /\ tables'[n].recs = tables[n].recs
                /\ tables'[n].cons = SelectSeq(tables[n].cons, Stays)]_vars

\* C6 witness: table t has been dropped, and the table left, which had a
\* foreign key to t, a unique constraint and a foreign key to u, holds a
\* record and the last two constraints.
C6_ForeignKeyStripped ==
    /\ last.op = "dropTable" /\ last.res = "ok" /\ last.tbl = TabT
    /\ DOMAIN tables = {TabU}
    /\ tables[TabU].cons = <<UQ(<<ColB>>), FK(<<ColB>>, TabU, <<ColA>>)>>
    /\ Len(tables[TabU].recs) >= 1

\* C7: a delete with the condition "all" on a table of N records leaves the
\* table with no record, its columns and constraints as they were, and
\* every other table unchanged.
C7_DeleteAllEmptiesTable ==
    [][(last'.op = "remove" /\ last'.cond = LitAll /\ last'.tbl \in DOMAIN tables) =>
        /\ OnlyRecordsOf(last'.tbl)
        /\ tables'[last'.tbl].recs = <<>>]_vars

\* C7 witness: a delete "all" has emptied a table of two records that has
\* constraints.
C7_AllDeleted ==
    /\ last.op = "remove" /\ last.cond = LitAll /\ last.res = "ok"
    /\ last.before = 2
    /\ tables[last.tbl].recs = <<>>
    /\ tables[last.tbl].cons /= <<>>

\* C8: an update or a delete whose equality condition matches no record of
\* the table leaves the tables unchanged and returns success.  The code does
\* not keep it.
C8_NoMatchIsSuccess ==
    [][\A e \in Equalities :
        (/\ last'.op \in {"update", "remove"}
         /\ last'.tbl \in DOMAIN tables
         /\ last'.cond = e.text
         /\ \A k \in 1..Len(tables[last'.tbl].recs) :
                ~Satisfies(tables[last'.tbl].recs[k], e))
        => (tables' = tables /\ last'.res = "ok")]_vars

\* C9: an update with the condition c = v, v written without quotes, sets
\* in every record whose c holds v the columns of the patch to the patch's
\* values and keeps that record's other columns; it leaves every other
\* record, a record without c among them, as it was, and it leaves the record
\* count, the schema and every other table unchanged.
C9_UpdatePatchesMatching ==
    [][\A e \in Equalities :
        (/\ last'.op = "update"
         /\ last'.tbl \in DOMAIN tables
         /\ last'.cond = e.text
         /\ ~e.quoted)
        => LET old == tables[last'.tbl].recs
               new == tables'[last'.tbl].recs
           IN /\ OnlyRecordsOf(last'.tbl)
              /\ Len(new) = Len(old)
              /\ \A k \in 1..Len(old) :
                     IF Satisfies(old[k], e)
                     THEN PatchOf(new[k], old[k], last'.arg)
                     ELSE new[k] = old[k]]_vars

\* C9 witness: an update with the condition a = x has patched a record of a
\* table of two records, the other of which has no column a.
C9_Patched ==
    /\ last.op = "update" /\ last.cond = CondAX /\ last.res = "ok"
    /\ Len(tables[last.tbl].recs) = 2
    /\ \E k \in 1..2 : ColA \notin DOMAIN tables[last.tbl].recs[k]
    /\ \E k \in 1..2 : ColA \in DOMAIN tables[last.tbl].recs[k]
                       /\ tables[last.tbl].recs[k][ColA] = ValY

\* C10: with the condition c = 'v', the literal in single quotes, an update
\* patches, a delete removes and a select lists exactly the records whose c
\* holds v, the quotes stripped.  The code does not keep it.
C10_QuotedLiteralStripped ==
    [][\A e \in Equalities :
        (/\ last'.op \in {"update", "remove", "select"}
         /\ last'.tbl \in DOMAIN tables
         /\ last'.cond = e.text
         /\ e.quoted)
        => LET old == tables[last'.tbl].recs
               new == tables'[last'.tbl].recs
               Unmatched(record) == ~Satisfies(record, e)
               Matched(record) == Satisfies(record, e)
           IN CASE last'.op = "update" ->
                    /\ Len(new) = Len(old)
                    /\ \A k \in 1..Len(old) :
                           IF Satisfies(old[k], e)
                           THEN PatchOf(new[k], old[k], last'.arg)
                           ELSE new[k] = old[k]
                [] last'.op = "remove" -> new = SelectSeq(old, Unmatched)
                [] last'.op = "select" ->
                    LET listed == SelectSeq(old, Matched)
                    IN last'.out =
                           [k \in 1..Len(listed) |-> selectRow(listed[k], last'.arg)]]_vars

\* The conditions that select every record, and the conditions that are
\* neither such a condition nor an equality.
MatchAll == {CondNone, LitAll}
Malformed(cond) == cond \notin MatchAll /\ \A e \in Equalities : cond /= e.text

\* The record is selected by the condition, as the grammar of conditions
\* reads it.
Chosen(record, cond) ==
    \/ cond \in MatchAll
    \/ \E e \in Equalities : cond = e.text /\ Satisfies(record, e)

\* C11: with the empty condition and with the condition "all", an update
\* patches every record of the table, a delete leaves the table without
\* records, and a select lists every record.  The code does not keep it.
C11_MatchAllSelectsEveryRecord ==
    [][(/\ last'.op \in {"update", "remove", "select"}
        /\ last'.tbl \in DOMAIN tables
        /\ last'.cond \in MatchAll)
       => LET old == tables[last'.tbl].recs
              new == tables'[last'.tbl].recs
          IN CASE last'.op = "update" ->
                   /\ Len(new) = Len(old)
                   /\ \A k \in 1..Len(old) : PatchOf(new[k], old[k], last'.arg)
               [] last'.op = "remove" -> new = <<>>
               [] last'.op = "select" ->
                   last'.out = [k \in 1..Len(old) |-> selectRow(old[k], last'.arg)]]_vars

\* C12: an update or a delete whose condition is neither empty, nor "all",
\* nor an equality fails as an invalid condition and leaves every table as
\* it was.
C12_MalformedConditionFails ==
    [][(/\ last'.op \in {"update", "remove"}
        /\ last'.tbl \in DOMAIN tables
        /\ Malformed(last'.cond))
       => (last'.res = "fail" /\ last'.why = "invalid" /\ tables' = tables)]_vars

\* C12 witness: an update with the condition "a x", which has no '=', has
\* been refused on a table of two records.
C12_UpdateRefused ==
    /\ last.op = "update" /\ last.cond = CondNoEq
    /\ last.res = "fail" /\ last.why = "invalid"
    /\ last.before = 2

\* C20: Table::updateRecord returns true exactly when the condition chose
\* at least one record to update, and Table::deleteRecord returns true
\* exactly when at least one record was deleted, for every condition and
\* every table content.  The code does not keep it.
C20_TrueIffSomeRecordTouched ==
    [][(last'.op \in {"update", "remove"} /\ last'.tbl \in DOMAIN tables)
       => LET old == tables[last'.tbl].recs
              new == tables'[last'.tbl].recs
          IN IF last'.op = "update"
             THEN (last'.res = "ok") <=>
                      (\E k \in 1..Len(old) : Chosen(old[k], last'.cond))
             ELSE (last'.res = "ok") <=> (Len(new) < Len(old))]_vars

\* C13: dropping a column that the schema has removes it from the column
\* list, the other columns keeping their order, removes its key from every
\* record and leaves a record without it as it is, and leaves the
\* constraints, the other values of every record, the number and order of the
\* records and every other table unchanged; afterwards the schema does not
\* have the column.
C13_DropColumnRemovesColumn ==
    [][(/\ last'.op = "dropColumn"
        /\ last'.tbl \in DOMAIN tables
        /\ \E i \in 1..Len(tables[last'.tbl].cols) : tables[last'.tbl].cols[i] = last'.arg)
       => LET name == last'.arg
              old == tables[last'.tbl]
              new == tables'[last'.tbl]
              Other(col) == col /= name
          IN /\ last'.res = "ok"
             /\ DOMAIN tables' = DOMAIN tables
             /\ \A n \in (DOMAIN tables) \ {last'.tbl} : tables'[n] = tables[n]
             /\ new.cols = SelectSeq(old.cols, Other)
             /\ \A i \in 1..Len(new.cols) : new.cols[i] /= name
             /\ new.cons = old.cons
             /\ Len(new.recs) = Len(old.recs)
             /\ \A k \in 1..Len(old.recs) :
                    /\ DOMAIN new.recs[k] = (DOMAIN old.recs[k]) \ {name}
                    /\ \A c \in DOMAIN new.recs[k] : new.recs[k][c] = old.recs[k][c]]_vars

\* C13 witness: column a has been dropped from a table that keeps its
\* primary key on a and holds two records, now without a.
C13_ColumnDropped ==
    /\ last.op = "dropColumn" /\ last.res = "ok" /\ last.arg = ColA
    /\ tables[last.tbl].cons = SchemaKeys.cons
    /\ Len(tables[last.tbl].recs) = 2
    /\ \A k \in 1..2 : DOMAIN tables[last.tbl].recs[k] = {ColB}

\* C14: a drop of a column the schema does not have, a drop of a table the
\* catalog does not have, and an insert, an update or a delete naming a table
\* the catalog does not have each return failure and leave the catalog as it
\* was.
C14_NotFoundChangesNothing ==
    [][(\/ /\ last'.op = "dropColumn"
           /\ last'.tbl \in DOMAIN tables
           /\ \A i \in 1..Len(tables[last'.tbl].cols) : tables[last'.tbl].cols[i] /= last'.arg
        \/ /\ last'.op \in {"dropTable", "insert", "update", "remove"}
           /\ last'.tbl \notin DOMAIN tables)
       => (last'.res = "fail" /\ tables' = tables)]_vars

\* C14 witness: a drop of a table that is not in the catalog has failed
\* while the catalog holds another table with records.
C14_MissingTableRefused ==
    /\ last.op = "dropTable" /\ last.res = "fail"
    /\ last.tbl \notin DOMAIN tables
    /\ \E n \in DOMAIN tables : Len(tables[n].recs) >= 1

\* The lines of the file as the given key decrypts it.
FileLines(key) == getlineTokens(decryptData(file.data, key), 10)

\* The names on the TABLE: lines.
FrameNames(lines) ==
    {trim(substrFrom(trim(lines[i]), 6)) :
        i \in {j \in 1..Len(lines) : startsWith(trim(lines[j]), MarkTable)}}

\* From line i on, every TABLE: line is followed by its COLUMNS:,
\* CONSTRAINTS: and RECORDS: n lines, n record lines and END_TABLE.
RECURSIVE Complete(_, _)
Complete(lines, i) ==
    IF i > Len(lines) THEN TRUE
    ELSE IF ~startsWith(trim(lines[i]), MarkTable) THEN Complete(lines, i + 1)
    ELSE /\ i + 3 <= Len(lines)
         /\ startsWith(trim(lines[i + 1]), MarkColumns)
         /\ startsWith(trim(lines[i + 2]), MarkConstraints)
         /\ startsWith(trim(lines[i + 3]), MarkRecords)
         /\ LET n == stoi(trim(substrFrom(trim(lines[i + 3]), 8)))
            IN /\ n.ok
               /\ n.val >= 0
               /\ i + 4 + n.val <= Len(lines)
               /\ \A k \in 1..n.val : trim(lines[i + 3 + k]) /= MarkEndTable
               /\ trim(lines[i + 4 + n.val]) = MarkEndTable
               /\ Complete(lines, i + 5 + n.val)

\* C15: when a load of a file that opened returns failure, the catalog
\* holds no table, neither one held before the load nor one parsed from an
\* earlier frame of the file.  The code does not keep it.
C15_FailedLoadLeavesNoTable ==
    [][(last'.op = "load" /\ file.exists /\ last'.res = "fail")
       => DOMAIN tables' = {}]_vars

\* C16: a load returns success only if every frame of the file is
\* complete: a frame missing its COLUMNS:, CONSTRAINTS: or RECORDS: line, one
\* of its record lines or END_TABLE, the end of the input included, makes the
\* load fail.  The code does not keep it.
C16_SuccessOnlyIfFramesComplete ==
    [][(last'.op = "load" /\ file.exists /\ last'.res = "ok")
       => Complete(FileLines(last'.arg), 1)]_vars

\* C17: a flush, whether it succeeds or fails to open the file, leaves the
\* catalog as it was, and a load of a file that cannot be opened returns
\* failure and leaves the catalog as it was.
C17_FileFailureChangesNothing ==
    [][/\ last'.op = "flush" => tables' = tables
       /\ (last'.op = "load" /\ ~file.exists) =>
              (last'.res = "fail" /\ tables' = tables)]_vars

\* C17 witness: a load has failed to open the file while the catalog holds
\* a table with a record.
C17_LoadFailedToOpen ==
    /\ last.op = "load" /\ last.res = "fail" /\ last.why = "open"
    /\ ~file.exists
    /\ \E n \in DOMAIN tables : Len(tables[n].recs) >= 1

\* C18: no engine operation ends in an exception that nothing handles:
\* every call returns success or failure.  The code does not keep it.
C18_EveryCallReturns == last.res \in {"ok", "fail"}

\* C19: after a successful load the names of the tables of the catalog are
\* exactly the names on the TABLE: lines of the file.  The code does not keep
\* it.
C19_LoadedNamesAreFrameNames ==
    [][(last'.op = "load" /\ file.exists /\ last'.res = "ok")
       => DOMAIN tables' = FrameNames(FileLines(last'.arg))]_vars

\* C21: QueryProcessor::execute returns true exactly when the statement
\* was carried out: it returns false when the engine operation it dispatched
\* to failed and when the statement was malformed.  The code does not keep
\* it.
C21_ExecuteReportsFailure ==
    [][last'.op = "execute" => (last'.res = "ok" <=> last'.why = "ok")]_vars

\* C30: a CREATE TABLE statement naming a table of the catalog is rejected
\* before Database::addTable is called, and leaves the catalog, the table's
\* schema, constraints and records among it, as it was.
C30_CreateNeverReplaces ==
    [][(/\ last'.op = "execute"
        /\ last'.arg.verb = "create"
        /\ last'.tbl \in DOMAIN tables)
       => (last'.why = "exists" /\ tables' = tables)]_vars

\* C30 witness: a CREATE TABLE with a schema without constraints has been
\* rejected for a table that has constraints and holds a record.
C30_CreateRejected ==
    /\ last.op = "execute" /\ last.arg.verb = "create" /\ last.why = "exists"
    /\ last.arg.schema = SchemaNone
    /\ tables[last.tbl].cons = SchemaKeys.cons
    /\ Len(tables[last.tbl].recs) >= 1

\* The decision rule for a record r offered to a table: under every primary
\* key and unique constraint r has each declared column, under a primary key
\* none of those values is empty, and no stored record that has all the
\* declared columns holds the same values in declared order.
Admits(table, r) ==
    \A i \in 1..Len(table.cons) :
        LET c == table.cons[i]
            Has(rec) == \A j \in 1..Len(c.cols) : c.cols[j] \in DOMAIN rec
            Same(rec) == \A j \in 1..Len(c.cols) : rec[c.cols[j]] = r[c.cols[j]]
        IN c.kind \in {"PK", "UQ"} =>
            /\ Has(r)
            /\ c.kind = "PK" => \A j \in 1..Len(c.cols) : r[c.cols[j]] /= <<>>
            /\ ~\E k \in 1..Len(table.recs) : Has(table.recs[k]) /\ Same(table.recs[k])

\* C22: Table::insertRecord(r) succeeds exactly when the decision rule admits
\* r: stored records missing a declared column never conflict and foreign
\* keys never count.  On success the records are the old ones with r
\* appended at the end, and otherwise they are the old ones.
C22_InsertDecisionRule ==
    [][(last'.op = "insert" /\ last'.why \notin {"notable", "mismatch"}) =>
        LET t == tables[last'.tbl]
            r == insertRecordOf(last'.arg[1], last'.arg[2])
        IN /\ last'.res = "ok" <=> Admits(t, r)
           /\ tables'[last'.tbl] =
                IF Admits(t, r) THEN [t EXCEPT !.recs = Append(t.recs, r)] ELSE t]_vars

\* C22 witness: a record has been inserted at the end of a table that has
\* foreign keys and a unique constraint while the record stored before it
\* lacks the unique column.
C22_InsertedBesideShortRecord ==
    /\ last.op = "insert" /\ last.res = "ok" /\ last.before = 1
    /\ tables[last.tbl].cons = SchemaRefs.cons
    /\ Len(tables[last.tbl].recs) = 2
    /\ ColB \notin DOMAIN tables[last.tbl].recs[1]
    /\ tables[last.tbl].recs[2] = insertRecordOf(last.arg[1], last.arg[2])

\* C23: a delete by an equality c = v, the literal written bare or in
\* single quotes, leaves exactly the records that lack c or store another
\* value than v, in their order and with their contents; the columns and
\* constraints of the table and every other table stay as they were.
C23_DeleteKeepsTheOthers ==
    [][(last'.op = "remove" /\ last'.tbl \in DOMAIN tables) =>
        \A e \in Equalities : last'.cond = e.text =>
            LET Stays(record) == ~Satisfies(record, e)
            IN /\ OnlyRecordsOf(last'.tbl)
               /\ tables'[last'.tbl].recs = SelectSeq(tables[last'.tbl].recs, Stays)]_vars

\* C23 witness: a delete by a quoted literal has taken one of three
\* records and left a record storing another value and a record
\* lacking the column, while another table exists.
C23_OneOfThreeDeleted ==
    /\ last.op = "remove" /\ last.cond = CondAQX /\ last.before = 3
    /\ DOMAIN tables = TableNames
    /\ Len(tables[last.tbl].recs) = 2
    /\ tables[last.tbl].recs[1] = insertRecordOf(RowYX[1], RowYX[2])
    /\ tables[last.tbl].recs[2] = insertRecordOf(RowBX[1], RowBX[2])

C25_UpdateIgnoresConstraints ==
    [][(/\ last'.op = "update"
        /\ last'.tbl \in DOMAIN tables
        /\ last'.cond \in {LitAll, CondAX})
       => LET old == tables[last'.tbl].recs
              new == tables'[last'.tbl].recs
              Sel(record) ==
                  \/ last'.cond = LitAll
                  \/ \E e \in Equalities : e.text = last'.cond /\ Satisfies(record, e)
          IN /\ Len(new) = Len(old)
             /\ (\E k \in 1..Len(old) : Sel(old[k])) => last'.res = "ok"
             /\ \A k \in 1..Len(old) :
                    Sel(old[k]) => PatchOf(new[k], old[k], last'.arg)]_vars

\* C25 witness: an update has left a table with a primary key on a and two
\* records that both store the empty string in a.
C25_EmptyDuplicateKeys ==
    /\ last.op = "update" /\ last.res = "ok"
    /\ tables[last.tbl].cons = SchemaKeys.cons
    /\ Len(tables[last.tbl].recs) = 2
    /\ \A k \in 1..2 : tables[last.tbl].recs[k][ColA] = <<>>

\* C26: in every state reached by creating tables, inserting, deleting,
\* dropping columns and tables, flushing and loading, without any update, no
\* two records of a table that both have all the columns of a primary key or
\* unique constraint agree on all of them, and no record stores the empty
\* string in a column of a primary key.
C26_UniqueWithoutUpdate ==
    \A n \in DOMAIN tables : \A i \in 1..Len(tables[n].cons) :
        LET c == tables[n].cons[i]
            recs == tables[n].recs
            Has(k) == \A j \in 1..Len(c.cols) : c.cols[j] \in DOMAIN recs[k]
        IN /\ c.kind \in {"PK", "UQ"} =>
                \A k1, k2 \in 1..Len(recs) :
                    (k1 < k2 /\ Has(k1) /\ Has(k2)) =>
                        \E j \in 1..Len(c.cols) : recs[k1][c.cols[j]] /= recs[k2][c.cols[j]]
           /\ c.kind = "PK" =>
                \A k \in 1..Len(recs) : \A j \in 1..Len(c.cols) :
                    c.cols[j] \in DOMAIN recs[k] => recs[k][c.cols[j]] /= <<>>

\* C26 witness: a load has brought back a table with a primary key and a
\* unique constraint holding two records.
C26_TwoKeyedRecordsLoaded ==
    /\ last.op = "load" /\ last.res = "ok"
    /\ TabT \in DOMAIN tables
    /\ tables[TabT].cons = SchemaKeys.cons
    /\ Len(tables[TabT].recs) = 2

\* C27: validate of a primary key is false exactly when some value is the
\* empty string, of a unique constraint exactly when two positions hold the
\* same string, of a foreign key exactly when the number of values is not
\* the number of declared columns; the call leaves the tables as they are
\* and its result is the same whatever they hold.
C27_ValidatorsCheckShapeOnly ==
    [][last'.op = "validate" =>
        LET c == last'.arg.constraint
            values == last'.arg.values
            fails ==
                CASE c.kind = "PK" -> \E i \in 1..Len(values) : values[i] = <<>>
                  [] c.kind = "UQ" -> \E i, j \in 1..Len(values) :
                                          i /= j /\ values[i] = values[j]
                  [] c.kind = "FK" -> Len(values) /= Len(c.cols)
        IN /\ last'.res = "fail" <=> fails
           /\ tables' = tables]_vars

\* C27 witness: the validator of a unique constraint has refused a list
\* whose first and last values are equal and whose middle one differs, while
\* a table holds a record.
C27_SeparatedDuplicateRefused ==
    /\ last.op = "validate" /\ last.res = "fail"
    /\ last.arg.constraint.kind = "UQ"
    /\ last.arg.values = <<ValY, ValX, ValY>>
    /\ TabT \in DOMAIN tables /\ Len(tables[TabT].recs) >= 1

\* C28: the catalog a successful load has produced comes back from a flush
\* under any key followed by a load under that key: the load succeeds and
\* gives the same table names, columns, constraints and records.  The code
\* does not keep it.
C28_ReloadIdempotent ==
    (last.op = "load" /\ last.res = "ok") =>
        \A key \in {KeyK, KeyWK} : \A order \in Orders(DOMAIN tables) :
            LET r == loadData(encryptData(serialize(tables, order), key), key)
            IN r.res = "ok" /\ r.tables = tables

\* C29: a select, whatever the table named, the columns listed and the
\* condition given, a missing table or column and a malformed condition
\* among them, leaves the tables as they are: the names, the columns and
\* constraints, and the records.
C29_SelectChangesNothing ==
    [][last'.op = "select" => (tables' = tables /\ file' = file)]_vars

\* C29 witness: a select without a condition has listed the records of a
\* table, one of which lacks one of the columns asked for.
C29_ShortRecordListed ==
    /\ last.op = "select" /\ last.res = "ok" /\ last.cond = CondNone
    /\ Len(last.out) >= 1
    /\ \E k \in 1..Len(tables[last.tbl].recs) :
           \E i \in 1..Len(last.arg) : last.arg[i] \notin DOMAIN tables[last.tbl].recs[k]

=============================================================================
